---- MODULE Spec2Model ----
(***************************************************************************)
(* Model of the tree editor of variably-react                              *)
(* (src/variably-react/src/types/json-editor/json-editor.tsx):             *)
(* the JSON <-> tree conversion of StyledAtlassianTreeComponent, its tree  *)
(* state (treeData) and the handlers that replace it.                      *)
(***************************************************************************)
EXTENDS Integers, Sequences, FiniteSets, TLC

VARIABLES
    data,       \* the `data` prop the component was mounted with (file.content at mount)
    treeData,   \* useState<TreeData>: [rootId, items]
    content,    \* file.content as last written through onStructureChange
    mounted,    \* whether the first render's effects have run
    idCount,    \* how many ids generateId() has handed out
    now,        \* the clock read by Date.now()
    steps,      \* number of handler invocations so far (bounded)
    last,       \* the handler that ran last and its arguments
    files,      \* FileDropZone's useState<JSONFile[]>
    selectedFileId,  \* FileDropZone's selectedFileId: the file the editor is open on
    nodes,      \* NodeBasedJSONEditor's useNodesState: the nodes, in order
    editors,    \* per node id, its component's state: isEditing, editValue
    selectedNode,  \* NodeBasedJSONEditor's selectedNode (its id, "" for null)
    errors,     \* the errors the node editor has reported, oldest first
    searchQuery,    \* the search input's text
    selectedType,   \* the type filter: "all" or a type
    showFilters,    \* whether the filter panel is open
    exactMatch,     \* exact (TRUE) or partial (FALSE) matching
    selectedItems,  \* the set of checked item ids
    bulkEditValue,  \* the bulk rename input's text
    isProcessing,   \* FileDropZone's isProcessing flag
    pending,        \* the ingestions started, each with whether processFiles has resolved
    toasts,         \* the toasts shown so far, oldest first
    uuidCount       \* how many ids crypto.randomUUID() has handed out

editorVars == <<nodes, editors, selectedNode, errors>>

viewVars == <<searchQuery, selectedType, showFilters, exactMatch, selectedItems, bulkEditValue>>

zoneVars == <<isProcessing, pending, toasts, uuidCount>>

vars == <<data, treeData, content, mounted, idCount, now, steps, last, files, selectedFileId,
          nodes, editors, selectedNode, errors,
          searchQuery, selectedType, showFilters, exactMatch, selectedItems, bulkEditValue,
          isProcessing, pending, toasts, uuidCount>>

----------------------------------------------------------------------------
(* Bounds *)

MaxSteps == 2       \* handler invocations per behaviour
MaxAdded == 1       \* nodes created by "Add Root Node"
MaxClock == 1       \* largest clock value
MaxLen == 2         \* longest array / widest object of the generated documents
MaxViewSteps == 3   \* handler invocations in the filter and selection view

----------------------------------------------------------------------------
(* JSON values.  Every value is a record of the same shape:                *)
(*   kind  : "null" | "boolean" | "number" | "string" | "array" | "object" *)
(*           ("undefined" for an absent data.value)                        *)
(*   prim  : the literal of a scalar                                       *)
(*   keys  : the property names of an object, in insertion order           *)
(*   elems : the elements of an array / the property values of an object   *)

JNull == [kind |-> "null", prim |-> "null", keys |-> <<>>, elems |-> <<>>]
JUndefined == [kind |-> "undefined", prim |-> "undefined", keys |-> <<>>, elems |-> <<>>]
JBool(b) == [kind |-> "boolean", prim |-> IF b THEN "true" ELSE "false",
             keys |-> <<>>, elems |-> <<>>]
JNum(n) == [kind |-> "number", prim |-> ToString(n), keys |-> <<>>, elems |-> <<>>]
JStr(s) == [kind |-> "string", prim |-> s, keys |-> <<>>, elems |-> <<>>]
JArr(es) == [kind |-> "array", prim |-> "", keys |-> <<>>, elems |-> es]
JObj(ks, es) == [kind |-> "object", prim |-> "", keys |-> ks, elems |-> es]
\* What a throwing conversion (RangeError: call stack exceeded) leaves behind.
JError == [kind |-> "error", prim |-> "RangeError", keys |-> <<>>, elems |-> <<>>]

EmptyObject == JObj(<<>>, <<>>)

\* JavaScript truthiness of a JSON value (the left operand of `value || {}`).
Falsy(v) ==
    \/ v.kind \in {"undefined", "null"}
    \/ v.kind = "boolean" /\ v.prim = "false"
    \/ v.kind = "number" /\ v.prim = "0"
    \/ v.kind = "string" /\ v.prim = ""

\* result[key] = v on an object under construction: a new key is appended,
\* an existing key keeps its place and gets the new value.
SetProp(obj, key, v) ==
    IF \E i \in 1..Len(obj.keys) : obj.keys[i] = key
    THEN [obj EXCEPT !.elems =
             [i \in 1..Len(obj.elems) |-> IF obj.keys[i] = key THEN v ELSE obj.elems[i]]]
    ELSE [obj EXCEPT !.keys = Append(obj.keys, key), !.elems = Append(obj.elems, v)]

\* Deep equality of JSON values: arrays by position, objects by key
\* (property order does not matter).
RECURSIVE DeepEqual(_, _)
DeepEqual(a, b) ==
    /\ a.kind = b.kind
    /\ a.prim = b.prim
    /\ Len(a.elems) = Len(b.elems)
    /\ IF a.kind = "object"
       THEN /\ {a.keys[i] : i \in 1..Len(a.keys)} = {b.keys[i] : i \in 1..Len(b.keys)}
            /\ \A i \in 1..Len(a.keys) : \A j \in 1..Len(b.keys) :
                  a.keys[i] = b.keys[j] => DeepEqual(a.elems[i], b.elems[j])
       ELSE \A i \in 1..Len(a.elems) : DeepEqual(a.elems[i], b.elems[i])

----------------------------------------------------------------------------
(* Strings *)

SeqToSet(s) == {s[i] : i \in 1..Len(s)}

Digits == {"0", "1", "2", "3", "4", "5", "6", "7", "8", "9"}

CharAt(s, i) == SubSeq(s, i, i)

\* title.replace(/[[\]]/g, ''): every '[' and ']' removed.
RECURSIVE StripBrackets(_)
StripBrackets(s) ==
    IF Len(s) = 0 THEN ""
    ELSE LET c == CharAt(s, 1)
             rest == StripBrackets(SubSeq(s, 2, Len(s)))
         IN IF c \in {"[", "]"} THEN rest ELSE c \o rest

AllDigits(s) == \A i \in 1..Len(s) : CharAt(s, i) \in Digits

\* !isNaN(Number(s)) for strings made of letters, digits, '-', '_':
\* the empty string converts to 0, an optionally signed run of digits to its
\* value, anything else to NaN.  (Whitespace, '.', '+', exponents, radix
\* prefixes and "Infinity" do not occur in the titles of this model.)
IsNumber(s) ==
    \/ Len(s) = 0
    \/ Len(s) >= 1 /\ AllDigits(s)
    \/ Len(s) >= 2 /\ CharAt(s, 1) = "-" /\ AllDigits(SubSeq(s, 2, Len(s)))

UpperCase == <<"A", "B", "C", "D", "E", "F", "G", "H", "I", "J", "K", "L", "M",
               "N", "O", "P", "Q", "R", "S", "T", "U", "V", "W", "X", "Y", "Z">>
LowerCase == <<"a", "b", "c", "d", "e", "f", "g", "h", "i", "j", "k", "l", "m",
               "n", "o", "p", "q", "r", "s", "t", "u", "v", "w", "x", "y", "z">>

\* The lower-case letter of each upper-case letter.
LowerOf == [c \in SeqToSet(UpperCase) |->
               LowerCase[CHOOSE k \in 1..26 : UpperCase[k] = c]]

\* s.toLowerCase() for ASCII strings.
RECURSIVE toLowerCase(_)
toLowerCase(s) ==
    IF Len(s) = 0 THEN ""
    ELSE LET c == CharAt(s, 1)
         IN (IF c \in DOMAIN LowerOf THEN LowerOf[c] ELSE c)
            \o toLowerCase(SubSeq(s, 2, Len(s)))

\* s.includes(q)
includes(s, q) ==
    \/ Len(q) = 0
    \/ \E i \in 1..(Len(s) - Len(q) + 1) : SubSeq(s, i, i + Len(q) - 1) = q

DigitValue(c) ==
    CASE c = "0" -> 0 [] c = "1" -> 1 [] c = "2" -> 2 [] c = "3" -> 3 [] c = "4" -> 4
      [] c = "5" -> 5 [] c = "6" -> 6 [] c = "7" -> 7 [] c = "8" -> 8 [] c = "9" -> 9

RECURSIVE DigitsValue(_, _)
DigitsValue(s, acc) ==
    IF Len(s) = 0 \/ CharAt(s, 1) \notin Digits THEN acc
    ELSE DigitsValue(SubSeq(s, 2, Len(s)), 10 * acc + DigitValue(CharAt(s, 1)))

\* parseInt(s || '0') on a string for which IsNumber holds.
ParseIndex(s) ==
    IF Len(s) = 0 THEN 0
    ELSE IF CharAt(s, 1) = "-" THEN 0 - DigitsValue(SubSeq(s, 2, Len(s)), 0)
    ELSE DigitsValue(s, 0)

----------------------------------------------------------------------------
(* JSON -> tree *)

RootId == "root"

\* The type string stored in data.type.
TypeOf(v) ==
    IF v.kind = "array" THEN "array"
    ELSE IF v.kind \in {"object", "null"} THEN "object"
    ELSE v.kind

HasChildren(v) == v.kind \in {"array", "object"} /\ Len(v.elems) > 0

ChildId(v, parentId, i) ==
    IF v.kind = "array" THEN "array-" \o parentId \o "-" \o ToString(i - 1)
    ELSE "object-" \o parentId \o "-" \o v.keys[i]

ChildTitle(v, i) ==
    IF v.kind = "array" THEN "[" \o ToString(i - 1) \o "]" ELSE v.keys[i]

\* The ids buildTreeItems(v, parentId, path) returns.
ChildIds(v, parentId) ==
    IF v.kind \in {"array", "object"}
    THEN [i \in 1..Len(v.elems) |-> ChildId(v, parentId, i)]
    ELSE <<>>

\* items[id] = {...} in both branches of buildTreeItems.
NewItem(v, parentId, i, depth) ==
    [id |-> ChildId(v, parentId, i),
     children |-> IF HasChildren(v.elems[i])
                  THEN ChildIds(v.elems[i], ChildId(v, parentId, i)) ELSE <<>>,
     title |-> ChildTitle(v, i),
     value |-> v.elems[i],
     type |-> TypeOf(v.elems[i]),
     isExpanded |-> depth < 2]

\* The writes buildTreeItems(v, parentId, path) makes to `items`, in the
\* order the code makes them, as a sequence of items (a later write to the
\* same id replaces an earlier one).  path.length is `depth`.
RECURSIVE BuildWrites(_, _, _)
BuildWrites(v, parentId, depth) ==
    IF v.kind \notin {"array", "object"} THEN <<>>
    ELSE LET F[i \in 0..Len(v.elems)] ==
                 IF i = 0 THEN <<>>
                 ELSE F[i - 1]
                      \o (IF HasChildren(v.elems[i])
                          THEN BuildWrites(v.elems[i], ChildId(v, parentId, i), depth + 1)
                          ELSE <<>>)
                      \o <<NewItem(v, parentId, i, depth)>>
         IN F[Len(v.elems)]

RootItem(v) ==
    [id |-> RootId, children |-> ChildIds(v, RootId), title |-> "root",
     value |-> JUndefined, type |-> "root", isExpanded |-> TRUE]

convertToAtlassianTree(jsonData) ==
    LET writes == BuildWrites(jsonData, RootId, 0) \o <<RootItem(jsonData)>>
        ids == {writes[i].id : i \in 1..Len(writes)}
        lastWrite(id) == CHOOSE i \in 1..Len(writes) :
                            /\ writes[i].id = id
                            /\ \A j \in (i + 1)..Len(writes) : writes[j].id # id
    IN [rootId |-> RootId, items |-> [id \in ids |-> writes[lastWrite(id)]]]

----------------------------------------------------------------------------
(* tree -> JSON *)

Has(items, id) == id \in DOMAIN items

\* The isArray test of convertItemsToJson.
IsArrayList(items, itemIds) ==
    \A i \in 1..Len(itemIds) :
        Has(items, itemIds[i]) /\ IsNumber(StripBrackets(items[itemIds[i]].title))

IndexOf(items, id) == ParseIndex(StripBrackets(items[id].title))

\* itemIds sorted by index; Array.prototype.sort is stable.
RECURSIVE InsertSorted(_, _, _)
InsertSorted(items, sorted, id) ==
    IF sorted = <<>> THEN <<id>>
    ELSE IF IndexOf(items, sorted[Len(sorted)]) <= IndexOf(items, id)
         THEN Append(sorted, id)
         ELSE Append(InsertSorted(items, SubSeq(sorted, 1, Len(sorted) - 1), id),
                     sorted[Len(sorted)])

SortByIndex(items, itemIds) ==
    LET F[i \in 0..Len(itemIds)] ==
            IF i = 0 THEN <<>> ELSE InsertSorted(items, F[i - 1], itemIds[i])
    IN F[Len(itemIds)]

\* item.data?.value || {}
LeafValue(item) == IF Falsy(item.value) THEN EmptyObject ELSE item.value

IsError(v) == v.kind = "error"

\* convertItemsToJson(itemIds).  `stack` holds the ids whose children are
\* being converted: meeting one of them again is the unbounded recursion
\* that ends in a RangeError.
RECURSIVE convertItemsToJson(_, _, _)
convertItemsToJson(items, itemIds, stack) ==
    LET conv(id) ==
            IF Len(items[id].children) > 0
            THEN IF id \in stack THEN JError
                 ELSE convertItemsToJson(items, items[id].children, stack \cup {id})
            ELSE LeafValue(items[id])
    IN IF Len(itemIds) = 0 THEN EmptyObject
       ELSE IF IsArrayList(items, itemIds)
       THEN LET sorted == SortByIndex(items, itemIds)
                out == [i \in 1..Len(sorted) |-> conv(sorted[i])]
            IN IF \E i \in 1..Len(out) : IsError(out[i]) THEN JError ELSE JArr(out)
       ELSE LET F[i \in 0..Len(itemIds)] ==
                    IF i = 0 THEN EmptyObject
                    ELSE LET prev == F[i - 1]
                         IN IF IsError(prev) THEN JError
                            ELSE IF ~Has(items, itemIds[i]) THEN prev
                            ELSE LET v == conv(itemIds[i])
                                 IN IF IsError(v) THEN JError
                                    ELSE SetProp(prev, items[itemIds[i]].title, v)
            IN F[Len(itemIds)]

convertFromAtlassianTree(td) ==
    IF ~Has(td.items, td.rootId) \/ Len(td.items[td.rootId].children) = 0
    THEN EmptyObject
    ELSE convertItemsToJson(td.items, td.items[td.rootId].children, {})

----------------------------------------------------------------------------
(* Tree helpers *)

\* The ids the Tree component renders: those reachable from the root through
\* children lists (the root itself is not rendered).
Reachable(items) ==
    LET step(S) == S \cup UNION {SeqToSet(items[id].children) : id \in S \cap DOMAIN items}
        F[n \in 0..Cardinality(DOMAIN items)] ==
            IF n = 0 THEN {RootId} ELSE step(F[n - 1])
    IN F[Cardinality(DOMAIN items)]

Rendered(td) == (Reachable(td.items) \cap DOMAIN td.items) \ {td.rootId}

\* The ids reachable from `id` through one or more children links.
Descendants(items, id) ==
    LET kids(S) == UNION {SeqToSet(items[x].children) : x \in S \cap DOMAIN items}
        F[n \in 0..Cardinality(DOMAIN items)] ==
            IF n = 0 THEN kids({id}) ELSE F[n - 1] \cup kids(F[n - 1])
    IN F[Cardinality(DOMAIN items)]

\* How many times `id` occurs in children lists.
Occurrences(items, id) ==
    LET count(p) == Cardinality({i \in 1..Len(items[p].children) : items[p].children[i] = id})
        F[S \in SUBSET DOMAIN items] ==
            IF S = {} THEN 0
            ELSE LET p == CHOOSE x \in S : TRUE IN count(p) + F[S \ {p}]
    IN F[DOMAIN items]

----------------------------------------------------------------------------
(* Handlers *)

\* updateItemTitle(treeData, itemId, newTitle)
updateItemTitle(td, itemId, newTitle) ==
    IF Has(td.items, itemId)
    THEN [td EXCEPT !.items[itemId].title = newTitle]
    ELSE td

RemoveAll(s, x) == SelectSeq(s, LAMBDA y : y # x)

\* removeItem without its second loop: the item is deleted from the map and
\* left in its parent's children.
removeItemKeepsReference(td, itemId) ==
    [td EXCEPT !.items = [id \in DOMAIN td.items \ {itemId} |-> td.items[id]]]

\* removeItem(treeData, itemId)
removeItem(td, itemId) ==
    [td EXCEPT !.items =
        [id \in DOMAIN td.items \ {itemId} |->
            [td.items[id] EXCEPT !.children = RemoveAll(td.items[id].children, itemId)]]]

\* children.filter((_, index) => index !== k), k counted from 0
RemoveAt(s, k) == [i \in 1..(Len(s) - 1) |-> IF i <= k THEN s[i] ELSE s[i + 1]]

\* s.splice(k, 0, x) for k >= 0, counted from 0: k beyond the end appends
InsertAt(s, k, x) ==
    LET at == IF k > Len(s) THEN Len(s) ELSE k
    IN SubSeq(s, 1, at) \o <<x>> \o SubSeq(s, at + 1, Len(s))

\* A drag position: {parentId, index?}; `given` is FALSE for an absent
\* destinationPosition.
Position(given, parentId, hasIndex, index) ==
    [given |-> given, parentId |-> parentId, hasIndex |-> hasIndex, index |-> index]

\* The item handleDragEnd picks up: sourceParent.children[sourcePosition.index]
\* ("" when there is none).
SourceItem(td, src) ==
    IF Has(td.items, src.parentId) /\ src.index < Len(td.items[src.parentId].children)
    THEN td.items[src.parentId].children[src.index + 1]
    ELSE ""

\* Whether handleDragEnd reaches setTreeData (none of its early returns is taken).
DragApplies(td, src, dst) ==
    /\ dst.given
    /\ SourceItem(td, src) # ""
    /\ Has(td.items, dst.parentId)

\* The tree handleDragEnd(sourcePosition, destinationPosition) leaves in treeData.
handleDragEnd(td, src, dst) ==
    IF ~DragApplies(td, src, dst) THEN td
    ELSE LET sourceItemId == SourceItem(td, src)
             removed == [td.items EXCEPT ![src.parentId].children = RemoveAt(@, src.index)]
             destChildren == removed[dst.parentId].children
             destIndex == IF dst.hasIndex THEN dst.index ELSE Len(destChildren)
         IN [td EXCEPT !.items =
                [removed EXCEPT ![dst.parentId].children =
                    InsertAt(destChildren, destIndex, sourceItemId)]]

\* generateId(): the n-th id handed out
generateId(n) == "g" \o ToString(n)

\* The "Add Root Node" click handler's new tree.
addRootNode(td, newId, t) ==
    LET newItem == [id |-> newId, children |-> <<>>,
                    title |-> "new_item_" \o ToString(t),
                    value |-> JUndefined, type |-> "object", isExpanded |-> FALSE]
        withNew == [id \in DOMAIN td.items \cup {newId} |->
                       IF id = newId THEN newItem ELSE td.items[id]]
    IN [td EXCEPT !.items =
           [withNew EXCEPT ![td.rootId].children = Append(@, newId)]]

\* value.trim() for strings whose only whitespace is the space
RECURSIVE TrimLeft(_)
TrimLeft(s) == IF Len(s) > 0 /\ CharAt(s, 1) = " " THEN TrimLeft(SubSeq(s, 2, Len(s))) ELSE s
RECURSIVE TrimRight(_)
TrimRight(s) ==
    IF Len(s) > 0 /\ CharAt(s, Len(s)) = " " THEN TrimRight(SubSeq(s, 1, Len(s) - 1)) ELSE s
Trim(s) == TrimRight(TrimLeft(s))

----------------------------------------------------------------------------
(* Documents *)

\* {"a": {"b": 1, "c": [2, 3]}}
DocNested ==
    JObj(<<"a">>, <<JObj(<<"b", "c">>, <<JNum(1), JArr(<<JNum(2), JNum(3)>>)>>)>>)
\* [10, 20, 30]
DocArray == JArr(<<JNum(10), JNum(20), JNum(30)>>)
\* {"a": {"c": 1}}
DocOnlyChild == JObj(<<"a">>, <<JObj(<<"c">>, <<JNum(1)>>)>>)
\* {"s": "x", "z": 0}
DocLeaves == JObj(<<"s", "z">>, <<JStr("x"), JNum(0)>>)

\* The documents the editor is opened on.
Docs == {DocNested, DocArray, DocOnlyChild, DocLeaves}

Scalars == {JNull, JBool(FALSE), JBool(TRUE), JNum(0), JNum(1), JStr(""), JStr("x")}

SeqsUpTo(S, n) == UNION {[1..k -> S] : k \in 0..n}

ObjKeys == <<"a", "b", "c">>

\* Arrays of up to MaxLen elements of S, and objects with the first k <= MaxLen
\* keys of ObjKeys and values in S.
Containers(S) ==
    {JArr(es) : es \in SeqsUpTo(S, MaxLen)}
    \cup {JObj(SubSeq(ObjKeys, 1, Len(es)), es) : es \in SeqsUpTo(S, MaxLen)}

\* {"-1": 5}
DocNegativeKey == JObj(<<"-1">>, <<JNum(5)>>)
\* {"": 5}
DocEmptyKey == JObj(<<"">>, <<JNum(5)>>)
\* {"0": "x", "1": "y"}
DocIndexKeys == JObj(<<"0", "1">>, <<JStr("x"), JStr("y")>>)
\* {"a": {"b-c": 1}, "a-b": {"c": 2}}
DocDashKeys ==
    JObj(<<"a", "a-b">>, <<JObj(<<"b-c">>, <<JNum(1)>>), JObj(<<"c">>, <<JNum(2)>>)>>)

\* Documents whose keys are not plain names.
KeyDocs == {DocNegativeKey, DocEmptyKey, DocIndexKeys, DocDashKeys}

\* Every JSON value of nesting depth <= 2 over Scalars (the inner containers
\* are the empty ones and the one-element ones), and the documents above.
ConvDocs ==
    KeyDocs
    \cup Docs
    \cup Scalars
    \cup Containers(Scalars
                    \cup {JArr(<<>>), EmptyObject, JArr(<<JNum(1)>>),
                          JObj(<<"a">>, <<JNum(0)>>), JObj(<<"b">>, <<JStr("x")>>)})

\* The titles typed into the inline title editor.
Titles == {"b", "0", " "}

----------------------------------------------------------------------------
(* State machine *)

NoAction == [op |-> "none", id |-> "", src |-> "", dst |-> "", applied |-> FALSE]

\* A file as processFiles pushes it.
LoadedFile(id, parsedContent) ==
    [id |-> id, name |-> id \o ".json", content |-> parsedContent,
     originalContent |-> parsedContent, isModified |-> FALSE]

\* handleContentChange(fileId, content): the new `files`.
handleContentChange(fs, fileId, newContent) ==
    [i \in 1..Len(fs) |->
        IF fs[i].id = fileId
        THEN [fs[i] EXCEPT !.content = newContent, !.isModified = TRUE]
        ELSE fs[i]]

\* The file with the given id (files.find(f => f.id === id)).
FileById(fs, id) == fs[CHOOSE i \in 1..Len(fs) : fs[i].id = id]

\* handleStructureChange(newData) of the JSONEditor open on the selected file:
\* onContentChange(file.id, newData).
handleStructureChange(fs, fileId, newData) == handleContentChange(fs, fileId, newData)

\* The effect body onStructureChange(convertFromAtlassianTree(treeData)): the
\* new `files`.  A conversion that throws never reaches the callback.
StructureEffect(fs, fileId, newData) ==
    IF IsError(newData) THEN fs ELSE handleStructureChange(fs, fileId, newData)

InitWith(D) ==
    /\ data \in D
    /\ files = <<LoadedFile("f1", data), LoadedFile("f2", DocLeaves)>>
    /\ selectedFileId = "f1"
    /\ treeData = convertToAtlassianTree(data)
    /\ content = data
    /\ mounted = FALSE
    /\ idCount = 0
    /\ now = 0
    /\ steps = 0
    /\ last = NoAction
    /\ searchQuery = ""
    /\ selectedType = "all"
    /\ showFilters = FALSE
    /\ exactMatch = FALSE
    /\ selectedItems = {}
    /\ bulkEditValue = ""
    /\ isProcessing = FALSE
    /\ pending = <<>>
    /\ toasts = <<>>
    /\ uuidCount = 0

\* The node editor is not open.
NoNodeEditor ==
    /\ nodes = <<>>
    /\ editors = <<>>
    /\ selectedNode = ""
    /\ errors = <<>>

Init == InitWith(Docs) /\ NoNodeEditor

\* useEffect(() => onStructureChange(convertFromAtlassianTree(treeData)), [treeData, ...])
\* after the first render.
MountEffect ==
    /\ ~mounted
    /\ mounted' = TRUE
    /\ LET newData == convertFromAtlassianTree(treeData)
       IN /\ content' = newData
          /\ files' = StructureEffect(files, selectedFileId, newData)
    /\ UNCHANGED <<data, treeData, idCount, now, steps, last, selectedFileId>>
    /\ UNCHANGED editorVars
    /\ UNCHANGED zoneVars
    /\ UNCHANGED viewVars

\* setTreeData(td) in a component whose effect does not depend on treeData.
SetTreeDataWithoutEffect(td) ==
    /\ treeData' = td
    /\ UNCHANGED <<content, files>>

\* setTreeData(td) followed by the effect that serializes the new tree.
SetTreeData(td) ==
    /\ treeData' = td
    /\ LET newData == convertFromAtlassianTree(td)
       IN /\ content' = newData
          /\ files' = StructureEffect(files, selectedFileId, newData)

\* A handler that returns without calling setTreeData.
NoTreeChange == UNCHANGED <<treeData, content, files>>

Ready == mounted /\ steps < MaxSteps

\* InlineEdit.onConfirm storing whatever was typed, trimmed.
ConfirmTitleUnchecked(itemId, newTitle) ==
    /\ Ready
    /\ itemId \in Rendered(treeData)
    /\ steps' = steps + 1
    /\ last' = [op |-> "updateItemTitle", id |-> itemId, src |-> "", dst |-> "",
                applied |-> TRUE]
    /\ SetTreeData(updateItemTitle(treeData, itemId, Trim(newTitle)))
    /\ UNCHANGED <<data, mounted, idCount, now, selectedFileId>>
    /\ UNCHANGED editorVars
    /\ UNCHANGED zoneVars
    /\ UNCHANGED viewVars

\* InlineEdit.onConfirm of a rendered item's title
ConfirmTitle(itemId, newTitle) ==
    /\ Ready
    /\ itemId \in Rendered(treeData)
    /\ steps' = steps + 1
    /\ LET applies == newTitle # treeData.items[itemId].title /\ Trim(newTitle) # ""
       IN /\ last' = [op |-> "updateItemTitle", id |-> itemId, src |-> "", dst |-> "",
                      applied |-> applies]
          /\ IF applies
             THEN SetTreeData(updateItemTitle(treeData, itemId, Trim(newTitle)))
             ELSE NoTreeChange
    /\ UNCHANGED <<data, mounted, idCount, now, selectedFileId>>
    /\ UNCHANGED editorVars
    /\ UNCHANGED zoneVars
    /\ UNCHANGED viewVars

\* The trash button of a rendered item
RemoveItem(itemId) ==
    /\ Ready
    /\ itemId \in Rendered(treeData)
    /\ steps' = steps + 1
    /\ last' = [op |-> "removeItem", id |-> itemId, src |-> "", dst |-> "", applied |-> TRUE]
    /\ SetTreeData(removeItem(treeData, itemId))
    /\ UNCHANGED <<data, mounted, idCount, now, selectedFileId>>
    /\ UNCHANGED editorVars
    /\ UNCHANGED zoneVars
    /\ UNCHANGED viewVars

\* Tree.onDragEnd
HandleDragEnd(src, dst) ==
    /\ Ready
    /\ steps' = steps + 1
    /\ last' = [op |-> "handleDragEnd", id |-> SourceItem(treeData, src),
                src |-> src.parentId, dst |-> dst.parentId,
                applied |-> DragApplies(treeData, src, dst)]
    /\ IF DragApplies(treeData, src, dst)
       THEN SetTreeData(handleDragEnd(treeData, src, dst))
       ELSE NoTreeChange
    /\ UNCHANGED <<data, mounted, idCount, now, selectedFileId>>
    /\ UNCHANGED editorVars
    /\ UNCHANGED zoneVars
    /\ UNCHANGED viewVars

\* The "Add Root Node" button
AddRootNode(t) ==
    /\ Ready
    /\ idCount < MaxAdded
    /\ steps' = steps + 1
    /\ idCount' = idCount + 1
    /\ now' = t
    /\ last' = [op |-> "addRootNode", id |-> generateId(idCount + 1), src |-> "",
                dst |-> treeData.rootId, applied |-> TRUE]
    /\ SetTreeData(addRootNode(treeData, generateId(idCount + 1), t))
    /\ UNCHANGED <<data, mounted, selectedFileId>>
    /\ UNCHANGED editorVars
    /\ UNCHANGED zoneVars
    /\ UNCHANGED viewVars

\* The positions a drag can start from and end at: a parent shown by the Tree
\* (the root or a rendered item) and an index into its children (the index one
\* past the end names no item as a source, and the end as a destination).
Parents == Rendered(treeData) \cup {treeData.rootId}

Indexes(p) == 0..Len(treeData.items[p].children)

SourcePositions == UNION {{Position(TRUE, p, TRUE, i) : i \in Indexes(p)} : p \in Parents}

DestinationPositions ==
    SourcePositions
    \cup {Position(TRUE, p, FALSE, 0) : p \in Parents}
    \cup {Position(FALSE, "", FALSE, 0)}

Next ==
    \/ MountEffect
    \/ \E id \in DOMAIN treeData.items, t \in Titles : ConfirmTitle(id, t)
    \/ \E id \in DOMAIN treeData.items : RemoveItem(id)
    \/ \E src \in SourcePositions, dst \in DestinationPositions : HandleDragEnd(src, dst)
    \/ \E t \in now..MaxClock : AddRootNode(t)

Spec == Init /\ [][Next]_vars

\* The conversions alone, on every generated document.
InitConv == InitWith(ConvDocs) /\ NoNodeEditor

NextConv == MountEffect

SpecConv == InitConv /\ [][NextConv]_vars

----------------------------------------------------------------------------
(* Node editor (node-editor.tsx): NodeBasedJSONEditor and its node          *)
(* components                                                              *)

\* `typeof value`, stored in data.type.
JsTypeOf(v) == IF v.kind \in {"array", "object", "null"} THEN "object" ELSE v.kind

\* The node's component: Array.isArray(value) ? 'array'
\*   : typeof value === 'object' && value !== null ? 'object' : 'value'.
NodeTypeOf(v) == IF v.kind \in {"array", "object"} THEN v.kind ELSE "value"

\* String(v) of a scalar or a plain object.
StringOf(v) == IF v.kind = "object" THEN "[object Object]" ELSE v.prim

\* useState(String(data?.value || '')): the text an editor starts with.
InitialEditValue(v) == IF Falsy(v) THEN "" ELSE StringOf(v)

\* processValue(value, key, parent) as the nodes pushed so far and after it;
\* nodeId++ is the number of nodes pushed before.  data.onChange is the
\* closure the node carries: "log" only logs.
RECURSIVE processValue(_, _, _)
processValue(value, key, pushed) ==
    LET node == [id |-> "node-" \o ToString(Len(pushed)),
                 type |-> NodeTypeOf(value),
                 data |-> [label |-> key, value |-> value, type |-> JsTypeOf(value),
                           onChange |-> "log"]]
        F[i \in 0..Len(value.elems)] ==
            IF i = 0 THEN Append(pushed, node)
            ELSE processValue(value.elems[i], ChildTitle(value, i), F[i - 1])
    IN F[Len(value.elems)]

convertJsonToNodes(jsonData) ==
    IF jsonData.kind \in {"array", "object"}
    THEN LET F[i \in 0..Len(jsonData.elems)] ==
                 IF i = 0 THEN <<>>
                 ELSE processValue(jsonData.elems[i], ChildTitle(jsonData, i), F[i - 1])
         IN F[Len(jsonData.elems)]
    ELSE <<>>

NodeIds(nds) == {nds[i].id : i \in 1..Len(nds)}

NodeById(nds, id) == nds[CHOOSE i \in 1..Len(nds) : nds[i].id = id]

\* The state a node component mounts with.
NewEditor(node) == [isEditing |-> FALSE, editValue |-> InitialEditValue(node.data.value)]

\* node.data.onChange(nodeId, newValue): the new `nodes`.
onChange(nds, node, nodeId, newValue) ==
    IF node.data.onChange = "setNodes"
    THEN [i \in 1..Len(nds) |->
             IF nds[i].id = nodeId THEN [nds[i] EXCEPT !.data.value = newValue] ELSE nds[i]]
    ELSE nds

\* The node addNewNode appends.
NewValueNode(newId) ==
    [id |-> newId, type |-> "value",
     data |-> [label |-> "New Node", value |-> JStr(""), type |-> "string",
               onChange |-> "setNodes"]]

\* nds.filter(node => node.id !== id)
RECURSIVE FilterOut(_, _)
FilterOut(nds, id) ==
    IF nds = <<>> THEN <<>>
    ELSE IF Head(nds).id = id THEN FilterOut(Tail(nds), id)
    ELSE <<Head(nds)>> \o FilterOut(Tail(nds), id)

\* {"n": 1, "s": "x"}
DocNumber == JObj(<<"n", "s">>, <<JNum(1), JStr("x")>>)

\* The documents the node editor is opened on.
NodeDocs == {DocNumber, DocOnlyChild}

\* The texts typed into a node's input.
EditTexts == {"abc", "7"}

\* The node editor after its first effect has run setNodes(initialNodes).
InitNode ==
    /\ InitWith(NodeDocs)
    /\ nodes = convertJsonToNodes(data)
    /\ editors = [id \in NodeIds(nodes) |-> NewEditor(NodeById(nodes, id))]
    /\ selectedNode = ""
    /\ errors = <<>>

treeVars == <<data, treeData, content, mounted, now, steps, files, selectedFileId>>

NodeAction(op, id) == [op |-> op, id |-> id, src |-> "", dst |-> "", applied |-> TRUE]

\* ObjectNode / ValueNode handleEdit.
HandleEdit(id) ==
    /\ NodeById(nodes, id).type # "array"
    /\ ~editors[id].isEditing
    /\ editors' = [editors EXCEPT ![id].isEditing = TRUE]
    /\ last' = NodeAction("handleEdit", id)
    /\ UNCHANGED <<nodes, selectedNode, errors, idCount>>
    /\ UNCHANGED treeVars
    /\ UNCHANGED zoneVars
    /\ UNCHANGED viewVars

\* The input's onChange: setEditValue(e.target.value).
SetEditValue(id, text) ==
    /\ editors[id].isEditing
    /\ editors' = [editors EXCEPT ![id].editValue = text]
    /\ last' = NodeAction("setEditValue", id)
    /\ UNCHANGED <<nodes, selectedNode, errors, idCount>>
    /\ UNCHANGED treeVars
    /\ UNCHANGED zoneVars
    /\ UNCHANGED viewVars

\* ObjectNode / ValueNode handleSave.
HandleSave(id) ==
    /\ editors[id].isEditing
    /\ nodes' = onChange(nodes, NodeById(nodes, id), NodeById(nodes, id).data.label,
                         JStr(editors[id].editValue))
    /\ editors' = [editors EXCEPT ![id].isEditing = FALSE]
    /\ last' = NodeAction("handleSave", id)
    /\ UNCHANGED <<selectedNode, errors, idCount>>
    /\ UNCHANGED treeVars
    /\ UNCHANGED zoneVars
    /\ UNCHANGED viewVars

\* ObjectNode / ValueNode handleCancel.
HandleCancel(id) ==
    /\ editors[id].isEditing
    /\ editors' = [editors EXCEPT ![id].isEditing = FALSE]
    /\ last' = NodeAction("handleCancel", id)
    /\ UNCHANGED <<nodes, selectedNode, errors, idCount>>
    /\ UNCHANGED treeVars
    /\ UNCHANGED zoneVars
    /\ UNCHANGED viewVars

OnNodeClick(id) ==
    /\ selectedNode # id
    /\ selectedNode' = id
    /\ last' = NodeAction("onNodeClick", id)
    /\ UNCHANGED <<nodes, editors, errors, idCount>>
    /\ UNCHANGED treeVars
    /\ UNCHANGED zoneVars
    /\ UNCHANGED viewVars

AddNewNode ==
    /\ idCount < MaxAdded
    /\ idCount' = idCount + 1
    /\ LET newNode == NewValueNode(generateId(idCount + 1))
       IN /\ nodes' = Append(nodes, newNode)
          /\ editors' = [id \in DOMAIN editors \cup {newNode.id} |->
                            IF id = newNode.id THEN NewEditor(newNode) ELSE editors[id]]
          /\ last' = NodeAction("addNewNode", newNode.id)
    /\ UNCHANGED <<selectedNode, errors>>
    /\ UNCHANGED treeVars
    /\ UNCHANGED zoneVars
    /\ UNCHANGED viewVars

DeleteSelectedNode ==
    /\ selectedNode # ""
    /\ nodes' = FilterOut(nodes, selectedNode)
    /\ editors' = [id \in DOMAIN editors \ {selectedNode} |-> editors[id]]
    /\ selectedNode' = ""
    /\ last' = NodeAction("deleteSelectedNode", selectedNode)
    /\ UNCHANGED <<errors, idCount>>
    /\ UNCHANGED treeVars
    /\ UNCHANGED zoneVars
    /\ UNCHANGED viewVars

NextNode ==
    \/ \E id \in NodeIds(nodes) : HandleEdit(id)
    \/ \E id \in NodeIds(nodes), text \in EditTexts : SetEditValue(id, text)
    \/ \E id \in NodeIds(nodes) : HandleSave(id)
    \/ \E id \in NodeIds(nodes) : HandleCancel(id)
    \/ \E id \in NodeIds(nodes) : OnNodeClick(id)
    \/ AddNewNode
    \/ DeleteSelectedNode

SpecNode == InitNode /\ [][NextNode]_vars

----------------------------------------------------------------------------
(* Filter and selection view of StyledAtlassianTreeComponent *)

\* structureTypes: the types that occur in the tree.
structureTypes(td) == {td.items[id].type : id \in DOMAIN td.items} \ {"root"}

\* itemMatchesFilters(item), and the same test inside getExactFilteredItems.
itemMatchesFilters(item, query, type, exact) ==
    LET matchesSearch ==
            IF query = "" THEN TRUE
            ELSE IF exact THEN item.title = query \/ item.type = query
            ELSE \/ includes(toLowerCase(item.title), toLowerCase(query))
                 \/ includes(toLowerCase(item.type), toLowerCase(query))
        matchesType == type = "all" \/ item.type = type
    IN matchesSearch /\ matchesType

\* getExactFilteredItems(), as a set of ids.
getExactFilteredItems(td, query, type, exact) ==
    IF query = "" /\ type = "all"
    THEN DOMAIN td.items \ {td.rootId}
    ELSE {id \in DOMAIN td.items \ {td.rootId} :
             itemMatchesFilters(td.items[id], query, type, exact)}

\* filterItems keeping an item only if it matches itself.
filterItemsMatchingOnly(td, itemIds, query, type, exact) ==
    SelectSeq(itemIds,
              LAMBDA id : /\ Has(td.items, id)
                          /\ itemMatchesFilters(td.items[id], query, type, exact))

\* filterItems(itemIds): the ids kept, in order.
RECURSIVE filterItems(_, _, _, _, _)
filterItems(td, itemIds, query, type, exact) ==
    SelectSeq(itemIds,
              LAMBDA id : /\ Has(td.items, id)
                          /\ \/ itemMatchesFilters(td.items[id], query, type, exact)
                             \/ filterItems(td, td.items[id].children, query, type, exact) # <<>>)

\* filteredTreeData: the items filterItems writes are the kept ones it
\* reaches from the root, each with its filtered children.
filteredTreeData(td, query, type, exact) ==
    IF query = "" /\ type = "all" THEN td
    ELSE LET filtered(id) == [td.items[id] EXCEPT
                                 !.children = filterItems(td, @, query, type, exact)]
             \* the items written while filtering the children of the ids in S
             RECURSIVE Written(_)
             Written(ids) ==
                 IF ids = <<>> THEN <<>>
                 ELSE LET item == filtered(Head(ids))
                      IN (Head(ids) :> item) @@ Written(item.children) @@ Written(Tail(ids))
         IN [rootId |-> td.rootId,
             items |-> IF Has(td.items, td.rootId) THEN Written(<<td.rootId>>) ELSE <<>>]

\* Rename All that renames every item with the title of a selected one.
renameAllSharingTitle(td, selected, newTitle) ==
    LET oldTitles == {td.items[id].title : id \in selected \cap DOMAIN td.items}
    IN [td EXCEPT !.items = [id \in DOMAIN td.items |->
           IF td.items[id].title \in oldTitles
           THEN [td.items[id] EXCEPT !.title = newTitle] ELSE td.items[id]]]

\* Rename All: every selected id that is in the map gets the title.
renameAll(td, selected, newTitle) ==
    [td EXCEPT !.items = [id \in DOMAIN td.items |->
        IF id \in selected THEN [td.items[id] EXCEPT !.title = newTitle] ELSE td.items[id]]]

\* handleExpand / handleCollapse building the item anew, without its children.
setExpandedDroppingChildren(td, itemId, expanded) ==
    IF Has(td.items, itemId)
    THEN [td EXCEPT !.items[itemId].isExpanded = expanded, !.items[itemId].children = <<>>]
    ELSE td

\* handleExpand(itemId) (expanded = TRUE) and handleCollapse(itemId) (FALSE):
\* the tree given to setTreeData.
setExpanded(td, itemId, expanded) ==
    IF Has(td.items, itemId)
    THEN [td EXCEPT !.items[itemId].isExpanded = expanded]
    ELSE td

\* The ids Tree flattens into rows: reached from the root through the
\* children of expanded items.
Visible(td) ==
    LET step(S) == S \cup UNION {SeqToSet(td.items[id].children) :
                                    id \in {x \in S \cap DOMAIN td.items : td.items[x].isExpanded}}
        F[n \in 0..Cardinality(DOMAIN td.items)] ==
            IF n = 0 THEN {td.rootId} ELSE step(F[n - 1])
    IN (F[Cardinality(DOMAIN td.items)] \cap DOMAIN td.items) \ {td.rootId}

\* The tree handed to Tree, and the ids matching the filters.
shownTree == filteredTreeData(treeData, searchQuery, selectedType, exactMatch)

exactFilteredItems == getExactFilteredItems(treeData, searchQuery, selectedType, exactMatch)

\* {"a": {"b": 1}, "b": 2}
DocSharedKey == JObj(<<"a", "b">>, <<JObj(<<"b">>, <<JNum(1)>>), JNum(2)>>)

\* The documents the view is opened on.
ViewDocs == {DocNested, DocSharedKey}

\* The texts typed into the search input and the bulk rename input.
Queries == {"B", "number"}
BulkTitles == {"k ", " "}
\* The texts confirmed in the inline title editor of the view.
ViewTitles == {"b", " "}

InitView == InitWith(ViewDocs) /\ NoNodeEditor

ViewReady == mounted /\ steps < MaxViewSteps

\* A handler that leaves the tree and the files alone.
ViewStep(op, id) ==
    /\ ViewReady
    /\ steps' = steps + 1
    /\ last' = NodeAction(op, id)
    /\ UNCHANGED <<data, treeData, content, mounted, idCount, now, files, selectedFileId>>
    /\ UNCHANGED editorVars
    /\ UNCHANGED zoneVars

\* The search input's onChange, and its clear button (query = "").
SetSearchQuery(query) ==
    /\ query # searchQuery
    /\ ViewStep("setSearchQuery", "")
    /\ searchQuery' = query
    /\ UNCHANGED <<selectedType, showFilters, exactMatch, selectedItems, bulkEditValue>>

ToggleExactMatch ==
    /\ ViewStep("setExactMatch", "")
    /\ exactMatch' = ~exactMatch
    /\ UNCHANGED <<searchQuery, selectedType, showFilters, selectedItems, bulkEditValue>>

ToggleShowFilters ==
    /\ ViewStep("setShowFilters", "")
    /\ showFilters' = ~showFilters
    /\ UNCHANGED <<searchQuery, selectedType, exactMatch, selectedItems, bulkEditValue>>

\* The type Select of the filter panel.
SetSelectedType(type) ==
    /\ showFilters
    /\ type \in {"all"} \cup structureTypes(treeData)
    /\ type # selectedType
    /\ ViewStep("setSelectedType", "")
    /\ selectedType' = type
    /\ UNCHANGED <<searchQuery, showFilters, exactMatch, selectedItems, bulkEditValue>>

ClearFilters ==
    /\ showFilters
    /\ searchQuery # "" \/ selectedType # "all" \/ exactMatch
    /\ ViewStep("clearFilters", "")
    /\ searchQuery' = ""
    /\ selectedType' = "all"
    /\ exactMatch' = FALSE
    /\ UNCHANGED <<showFilters, selectedItems, bulkEditValue>>

\* A click on a row or on its checkbox.
ToggleItem(id) ==
    /\ ViewStep("toggleItem", id)
    /\ selectedItems' = IF id \in selectedItems THEN selectedItems \ {id}
                        ELSE selectedItems \cup {id}
    /\ UNCHANGED <<searchQuery, selectedType, showFilters, exactMatch, bulkEditValue>>

\* "Select all filtered" that selects every item of the tree, filtered or not.
SelectAllIgnoringFilter(checked) ==
    /\ showFilters
    /\ ViewStep("selectAllFiltered", "")
    /\ selectedItems' = IF checked THEN DOMAIN treeData.items \ {treeData.rootId} ELSE {}
    /\ UNCHANGED <<searchQuery, selectedType, showFilters, exactMatch, bulkEditValue>>

\* The "Select all filtered" checkbox: onCheckedChange(checked).
SelectAllFiltered(checked) ==
    /\ showFilters
    /\ ViewStep("selectAllFiltered", "")
    /\ selectedItems' = IF checked THEN exactFilteredItems ELSE {}
    /\ UNCHANGED <<searchQuery, selectedType, showFilters, exactMatch, bulkEditValue>>

\* Whether the "Select all filtered" checkbox shows as checked.
AllFilteredChecked == exactFilteredItems # {} /\ exactFilteredItems \subseteq selectedItems

ClearSelection ==
    /\ selectedItems # {}
    /\ ViewStep("clearSelection", "")
    /\ selectedItems' = {}
    /\ bulkEditValue' = ""
    /\ UNCHANGED <<searchQuery, selectedType, showFilters, exactMatch>>

SetBulkEditValue(text) ==
    /\ selectedItems # {}
    /\ text # bulkEditValue
    /\ ViewStep("setBulkEditValue", "")
    /\ bulkEditValue' = text
    /\ UNCHANGED <<searchQuery, selectedType, showFilters, exactMatch, selectedItems>>

\* A handler of the view that calls setTreeData.
TreeStep(op, id) ==
    /\ ViewReady
    /\ steps' = steps + 1
    /\ last' = NodeAction(op, id)
    /\ UNCHANGED <<data, mounted, idCount, now, selectedFileId>>
    /\ UNCHANGED editorVars
    /\ UNCHANGED zoneVars

\* The onClick of the "Rename All" button: nothing happens unless the
\* trimmed input is non-empty.
RenameAll ==
    /\ selectedItems # {}
    /\ ViewReady
    /\ steps' = steps + 1
    /\ last' = [op |-> "renameAll", id |-> "", src |-> "", dst |-> "",
                applied |-> Trim(bulkEditValue) # ""]
    /\ IF Trim(bulkEditValue) # ""
       THEN /\ SetTreeData(renameAll(treeData, selectedItems, Trim(bulkEditValue)))
            /\ bulkEditValue' = ""
            /\ selectedItems' = {}
       ELSE /\ NoTreeChange
            /\ UNCHANGED <<bulkEditValue, selectedItems>>
    /\ UNCHANGED <<data, mounted, idCount, now, selectedFileId>>
    /\ UNCHANGED editorVars
    /\ UNCHANGED zoneVars
    /\ UNCHANGED <<searchQuery, selectedType, showFilters, exactMatch>>

\* The expand button of a collapsed row with children.
HandleExpand(id) ==
    /\ shownTree.items[id].children # <<>>
    /\ ~shownTree.items[id].isExpanded
    /\ TreeStep("handleExpand", id)
    /\ SetTreeData(setExpanded(treeData, id, TRUE))
    /\ UNCHANGED viewVars

\* The collapse button of an expanded row with children.
HandleCollapse(id) ==
    /\ shownTree.items[id].children # <<>>
    /\ shownTree.items[id].isExpanded
    /\ TreeStep("handleCollapse", id)
    /\ SetTreeData(setExpanded(treeData, id, FALSE))
    /\ UNCHANGED viewVars

NextView ==
    \/ MountEffect
    \/ \E query \in Queries \cup {""} : SetSearchQuery(query)
    \/ ToggleExactMatch
    \/ ToggleShowFilters
    \/ \E type \in {"all"} \cup structureTypes(treeData) : SetSelectedType(type)
    \/ ClearFilters
    \/ \E id \in Visible(shownTree) : ToggleItem(id)
    \/ SelectAllFiltered(~AllFilteredChecked)
    \/ ClearSelection
    \/ \E text \in BulkTitles : SetBulkEditValue(text)
    \/ RenameAll
    \/ \E id \in Visible(shownTree) : HandleExpand(id)
    \/ \E id \in Visible(shownTree) : HandleCollapse(id)
    \/ \E id \in Visible(shownTree), title \in ViewTitles : ConfirmTitle(id, title)

SpecView == InitView /\ [][NextView]_vars

----------------------------------------------------------------------------
(***************************************************************************)
(* Editing under a filter: the Tree renders filteredTreeData, so the       *)
(* trash buttons and the drag positions are those of the filtered tree.    *)
(***************************************************************************)

\* {"a": {"b": 1, "c": 2}}
DocSiblings == JObj(<<"a">>, <<JObj(<<"b", "c">>, <<JNum(1), JNum(2)>>)>>)

EditDocs == {DocSiblings}

\* The texts typed into the search input.
EditQueries == {"c"}

\* The positions a drag on the rendered (filtered) tree can start from (those
\* of the shown items) and end at (between or after the shown children of a
\* shown parent, onto a shown parent, or nowhere).
ShownParents == Visible(shownTree) \cup {shownTree.rootId}

ShownIndexes(p) == 0..Len(shownTree.items[p].children)

ShownSourcePositions ==
    UNION {{Position(TRUE, p, TRUE, i - 1) : i \in 1..Len(shownTree.items[p].children)} :
              p \in ShownParents}

ShownDestinationPositions ==
    UNION {{Position(TRUE, p, TRUE, i) : i \in ShownIndexes(p)} : p \in ShownParents}
    \cup {Position(TRUE, p, FALSE, 0) : p \in ShownParents}
    \cup {Position(FALSE, "", FALSE, 0)}

InitEdit == InitWith(EditDocs) /\ NoNodeEditor

NextEdit ==
    \/ MountEffect
    \/ \E query \in EditQueries \cup {""} : SetSearchQuery(query)
    \/ ToggleShowFilters
    \/ \E id \in Visible(shownTree) : ToggleItem(id)
    \/ SelectAllFiltered(~AllFilteredChecked)
    \/ \E id \in Visible(shownTree) : RemoveItem(id)
    \/ \E src \in ShownSourcePositions, dst \in ShownDestinationPositions :
          HandleDragEnd(src, dst)

SpecEdit == InitEdit /\ [][NextEdit]_vars

----------------------------------------------------------------------------
(***************************************************************************)
(* FileDropZone (src/unnamed/part_001): ingestion of dropped or browsed    *)
(* files, file selection, save, and the JSONEditor it renders on the       *)
(* selected file.                                                          *)
(***************************************************************************)

MaxIngestions == 2   \* drops or browses per behaviour
MaxFileSteps == 4    \* handler invocations and completions in FileDropZone

\* A File of a drop's DataTransfer or of the file input.
File(name, type, text) == [name |-> name, type |-> type, text |-> text]

\* What JSON.parse throws on a malformed text.
SyntaxError == [kind |-> "error", prim |-> "SyntaxError", keys |-> <<>>, elems |-> <<>>]

\* JSON.parse on the texts of the files below.
JSONParse(text) ==
    CASE text = "{\"a\":1}" -> JObj(<<"a">>, <<JNum(1)>>)
      [] text = "{\"b\":\"x\"}" -> JObj(<<"b">>, <<JStr("x")>>)
      [] text = "{}" -> EmptyObject
      [] OTHER -> SyntaxError

\* String.prototype.endsWith
endsWith(s, suffix) ==
    /\ Len(s) >= Len(suffix)
    /\ SubSeq(s, Len(s) - Len(suffix) + 1, Len(s)) = suffix

\* crypto.randomUUID(): the n-th id handed out.
randomUUID(n) == "u" \o ToString(n)

\* The JSONFile processFiles pushes.
JSONFile(id, name, parsedContent) ==
    [id |-> id, name |-> name, content |-> parsedContent,
     originalContent |-> parsedContent, isModified |-> FALSE]

\* file.type === 'application/json' || file.name.endsWith('.json')
IsJSONFile(file) == file.type = "application/json" \/ endsWith(file.name, ".json")

RECURSIVE processFiles(_, _)

\* processFiles with its try around the whole loop: the first malformed file
\* ends the batch.
processFilesAbortingOnError(fileList, n) ==
    IF fileList = <<>>
    THEN [jsonFiles |-> <<>>, errors |-> <<>>]
    ELSE LET file == Head(fileList)
             parsedContent == JSONParse(file.text)
         IN IF ~IsJSONFile(file)
            THEN processFiles(Tail(fileList), n)
            ELSE IF IsError(parsedContent)
            THEN [jsonFiles |-> <<>>, errors |-> <<file.name>>]
            ELSE LET rest == processFiles(Tail(fileList), n + 1)
                 IN [rest EXCEPT !.jsonFiles =
                        <<JSONFile(randomUUID(n + 1), file.name, parsedContent)>> \o @]

\* processFiles(fileList) when n ids have been handed out: the files it
\* returns and the names it reports as failed.
processFiles(fileList, n) ==
    IF fileList = <<>>
    THEN [jsonFiles |-> <<>>, errors |-> <<>>]
    ELSE LET file == Head(fileList)
             parsedContent == JSONParse(file.text)
         IN IF ~IsJSONFile(file)
            THEN processFiles(Tail(fileList), n)
            ELSE IF IsError(parsedContent)
            THEN LET rest == processFiles(Tail(fileList), n)
                 IN [rest EXCEPT !.errors = <<file.name>> \o @]
            ELSE LET rest == processFiles(Tail(fileList), n + 1)
                 IN [rest EXCEPT !.jsonFiles =
                        <<JSONFile(randomUUID(n + 1), file.name, parsedContent)>> \o @]

\* A toast: toast.error of processFiles, toast.success of a drop or of a save.
Toast(kind, names, count) == [kind |-> kind, names |-> names, count |-> count]

\* The toasts of one ingestion, in the order they are shown.
IngestionToasts(via, result) ==
    (IF result.errors # <<>>
     THEN <<Toast("error", result.errors, Len(result.errors))>> ELSE <<>>)
    \o (IF via = "drop" /\ result.jsonFiles # <<>>
        THEN <<Toast("success", <<>>, Len(result.jsonFiles))>> ELSE <<>>)

\* handleSave copying the content without clearing the flag.
handleSaveKeepingFlag(fs, fileId) ==
    [i \in 1..Len(fs) |->
        IF fs[i].id = fileId
        THEN [fs[i] EXCEPT !.originalContent = fs[i].content]
        ELSE fs[i]]

\* handleSave's setFiles: the new `files`.
handleSave(fs, fileId) ==
    [i \in 1..Len(fs) |->
        IF fs[i].id = fileId
        THEN [fs[i] EXCEPT !.originalContent = fs[i].content, !.isModified = FALSE]
        ELSE fs[i]]

\* The ids of the loaded files.
FileIds(fs) == {fs[i].id : i \in 1..Len(fs)}

\* The files that are dropped or browsed.
FileA == File("a.json", "application/json", "{\"a\":1}")
FileB == File("b.json", "", "{\"b\":\"x\"}")
FileBad == File("bad.json", "application/json", "{")
FileTxt == File("notes.txt", "text/plain", "{}")

Batches == {<<FileA, FileBad, FileB>>, <<FileTxt, FileB>>, <<FileBad>>}

\* One ingestion as handleDrop, handleGlobalDrop or the file input starts it:
\* its files, and the selectedFileId its closure captured.
Ingestion(via, fileList, sel) ==
    [via |-> via, fileList |-> fileList, selectedFileId |-> sel, done |-> FALSE]

InFlight == {i \in 1..Len(pending) : ~pending[i].done}

ZoneAction(op, id, src) == [op |-> op, id |-> id, src |-> src, dst |-> "", applied |-> TRUE]

FileReady == steps < MaxFileSteps

InitFiles ==
    /\ files = <<>>
    /\ selectedFileId = ""
    /\ data = JUndefined
    /\ treeData = convertToAtlassianTree(JUndefined)
    /\ content = JUndefined
    /\ mounted = FALSE
    /\ idCount = 0
    /\ now = 0
    /\ steps = 0
    /\ last = NoAction
    /\ searchQuery = ""
    /\ selectedType = "all"
    /\ showFilters = FALSE
    /\ exactMatch = FALSE
    /\ selectedItems = {}
    /\ bulkEditValue = ""
    /\ isProcessing = FALSE
    /\ pending = <<>>
    /\ toasts = <<>>
    /\ uuidCount = 0
    /\ NoNodeEditor

\* FileDropZone rendering with the files `fs` and the selection `sel`.  The
\* first selection mounts the JSONEditor: the tree state is built from the
\* file and the effect serializes it.  A change of selection re-renders the
\* mounted editor with a new handleStructureChange, so the effect runs again
\* on the tree state the component already holds.
Render(fs, sel) ==
    /\ selectedFileId' = sel
    /\ IF sel = selectedFileId
       THEN /\ files' = fs
            /\ UNCHANGED <<data, treeData, content, mounted>>
       ELSE IF selectedFileId = ""
       THEN LET file == FileById(fs, sel)
                td == convertToAtlassianTree(file.content)
                newData == convertFromAtlassianTree(td)
            IN /\ data' = file.content
               /\ treeData' = td
               /\ mounted' = TRUE
               /\ content' = newData
               /\ files' = StructureEffect(fs, sel, newData)
       ELSE LET newData == convertFromAtlassianTree(treeData)
            IN /\ content' = newData
               /\ files' = StructureEffect(fs, sel, newData)
               /\ UNCHANGED <<data, treeData, mounted>>

\* handleDrop / handleGlobalDrop ("drop") or the file input's onChange
\* ("browse") up to the await of processFiles.
StartIngestion(via, fileList) ==
    /\ FileReady
    /\ Len(pending) < MaxIngestions
    /\ steps' = steps + 1
    /\ isProcessing' = TRUE
    /\ pending' = Append(pending, Ingestion(via, fileList, selectedFileId))
    /\ last' = ZoneAction("startIngestion", "", via)
    /\ UNCHANGED <<data, treeData, content, mounted, idCount, now, files,
                   selectedFileId, toasts, uuidCount>>
    /\ UNCHANGED editorVars
    /\ UNCHANGED viewVars

\* The rest of the handler once processFiles has resolved.
CompleteIngestion(i) ==
    /\ FileReady
    /\ i \in InFlight
    /\ steps' = steps + 1
    /\ LET p == pending[i]
           result == processFiles(p.fileList, uuidCount)
           newFiles == result.jsonFiles
       IN /\ Render(files \o newFiles,
                    IF p.selectedFileId = "" /\ newFiles # <<>>
                    THEN newFiles[1].id ELSE selectedFileId)
          /\ uuidCount' = uuidCount + Len(newFiles)
          /\ toasts' = toasts \o IngestionToasts(p.via, result)
          /\ last' = ZoneAction("completeIngestion", ToString(i), p.via)
    /\ pending' = [pending EXCEPT ![i].done = TRUE]
    /\ isProcessing' = FALSE
    /\ UNCHANGED <<idCount, now>>
    /\ UNCHANGED editorVars
    /\ UNCHANGED viewVars

\* handleFileSelect(fileId), from a click in the file list.
HandleFileSelect(fileId) ==
    /\ FileReady
    /\ fileId \in FileIds(files)
    /\ steps' = steps + 1
    /\ Render(files, fileId)
    /\ last' = ZoneAction("handleFileSelect", fileId, selectedFileId)
    /\ UNCHANGED <<idCount, now>>
    /\ UNCHANGED editorVars
    /\ UNCHANGED viewVars
    /\ UNCHANGED zoneVars

\* handleSave(fileId, saveAsNew)
SaveFile(fileId, saveAsNew) ==
    /\ FileReady
    /\ steps' = steps + 1
    /\ last' = [ZoneAction("handleSave", fileId, IF saveAsNew THEN "saveAsNew" ELSE "")
                    EXCEPT !.applied = fileId \in FileIds(files)]
    /\ IF fileId \in FileIds(files)
       THEN files' = handleSave(files, fileId)
       ELSE UNCHANGED files
    /\ UNCHANGED <<data, treeData, content, mounted, idCount, now, selectedFileId>>
    /\ UNCHANGED editorVars
    /\ UNCHANGED viewVars
    /\ UNCHANGED zoneVars

\* A handler of the open editor that ends in setTreeData(td), or returns
\* without it.
EditTree(op, itemId, applies, td) ==
    /\ FileReady
    /\ mounted
    /\ steps' = steps + 1
    /\ last' = [op |-> op, id |-> itemId, src |-> "", dst |-> "", applied |-> applies]
    /\ IF applies THEN SetTreeData(td) ELSE NoTreeChange
    /\ UNCHANGED <<data, mounted, selectedFileId>>
    /\ UNCHANGED editorVars
    /\ UNCHANGED viewVars
    /\ UNCHANGED zoneVars

\* InlineEdit.onConfirm in the open editor.
RenameInEditor(itemId, newTitle) ==
    /\ itemId \in Rendered(treeData)
    /\ EditTree("updateItemTitle", itemId,
                newTitle # treeData.items[itemId].title /\ Trim(newTitle) # "",
                updateItemTitle(treeData, itemId, Trim(newTitle)))
    /\ UNCHANGED <<idCount, now>>

\* The trash button in the open editor.
DeleteInEditor(itemId) ==
    /\ itemId \in Rendered(treeData)
    /\ EditTree("removeItem", itemId, TRUE, removeItem(treeData, itemId))
    /\ UNCHANGED <<idCount, now>>

\* Tree.onDragEnd in the open editor.
DragInEditor(src, dst) ==
    /\ EditTree("handleDragEnd", SourceItem(treeData, src), DragApplies(treeData, src, dst),
                handleDragEnd(treeData, src, dst))
    /\ UNCHANGED <<idCount, now>>

\* The "Add Root Node" button in the open editor.
AddInEditor(t) ==
    /\ idCount < MaxAdded
    /\ idCount' = idCount + 1
    /\ now' = t
    /\ EditTree("addRootNode", generateId(idCount + 1), TRUE,
                addRootNode(treeData, generateId(idCount + 1), t))

NextFiles ==
    \/ \E via \in {"drop", "browse"}, fileList \in Batches : StartIngestion(via, fileList)
    \/ \E i \in 1..Len(pending) : CompleteIngestion(i)
    \/ \E fileId \in FileIds(files) : HandleFileSelect(fileId)
    \/ \E fileId \in FileIds(files) \cup {"missing"}, saveAsNew \in BOOLEAN :
          SaveFile(fileId, saveAsNew)
    \/ \E id \in DOMAIN treeData.items, t \in ViewTitles : RenameInEditor(id, t)
    \/ \E id \in DOMAIN treeData.items : DeleteInEditor(id)
    \/ \E src \in SourcePositions, dst \in DestinationPositions : DragInEditor(src, dst)
    \/ \E t \in now..MaxClock : AddInEditor(t)

SpecFiles == InitFiles /\ [][NextFiles]_vars

----------------------------------------------------------------------------
(* Properties *)

treeItems == treeData.items

\* The JSON one node stands for: its children converted, or its stored value.
NodeJson(its, id) ==
    IF Len(its[id].children) > 0
    THEN convertItemsToJson(its, its[id].children, {})
    ELSE its[id].value

\* The titles on the way from the root to `id`, in a tree where every item
\* other than the root is in exactly one children list.
RECURSIVE TitlePath(_, _)
TitlePath(its, id) ==
    IF id = RootId THEN <<>>
    ELSE LET p == CHOOSE q \in DOMAIN its : id \in SeqToSet(its[q].children)
         IN Append(TitlePath(its, p), its[id].title)

\* Where the entry titled t sits in the JSON container j.
EntryIndex(j, t) ==
    IF j.kind = "array" THEN ParseIndex(StripBrackets(t)) + 1
    ELSE CHOOSE i \in 1..Len(j.keys) : j.keys[i] = t

DropAt(s, i) == [k \in 1..(Len(s) - 1) |-> IF k < i THEN s[k] ELSE s[k + 1]]

\* The JSON value j without the entry (and so the subtree) at `path`.
RECURSIVE RemoveEntry(_, _)
RemoveEntry(j, path) ==
    LET i == EntryIndex(j, path[1])
    IN IF Len(path) = 1
       THEN IF j.kind = "array" THEN [j EXCEPT !.elems = DropAt(@, i)]
            ELSE [j EXCEPT !.elems = DropAt(@, i), !.keys = DropAt(@, i)]
       ELSE [j EXCEPT !.elems[i] = RemoveEntry(@, Tail(path))]

\* C1: converting a non-empty JSON array or object to a tree and back, with
\* no edit in between, yields a value deep-equal to it.
\* (`content` after MountEffect is convertFromAtlassianTree(convertToAtlassianTree(data)).)
C1_RoundTrip == (mounted /\ steps = 0 /\ HasChildren(data)) => DeepEqual(content, data)

\* C2: deleting a node of the freshly converted tree leaves the serialized
\* JSON equal to the JSON before the delete without that node's entry.
C2_DeleteRemovesEntry ==
    [][(steps = 0 /\ last'.op = "removeItem")
        => DeepEqual(content', RemoveEntry(content, TitlePath(treeItems, last'.id)))]_vars

\* C3: after a reorder of siblings (a drop with the same source and
\* destination parent) whose list serializes to an array, the array lists
\* the elements in the order of the children list.
C3_ReorderedArrayFollowsChildren ==
    (last.op = "handleDragEnd" /\ last.applied /\ last.src = last.dst
        /\ last.src \in DOMAIN treeItems)
    => LET kids == treeItems[last.src].children
           json == convertItemsToJson(treeItems, kids, {})
       IN json.kind = "array"
          => \A i \in 1..Len(kids) :
                 DeepEqual(json.elems[i], convertItemsToJson(treeItems, <<kids[i]>>, {}).elems[1])

\* C4: in the serialized document every child of the root with children
\* contributes the conversion of its children, and every leaf child of the
\* root contributes its stored value verbatim.
C4_LeafVerbatim ==
    (mounted /\ steps = 0 /\ data.kind \in {"array", "object"})
    => \A i \in 1..Len(treeItems[RootId].children) :
          LET id == treeItems[RootId].children[i]
          IN /\ Len(content.elems) = Len(treeItems[RootId].children)
             /\ DeepEqual(content.elems[i], NodeJson(treeItems, id))

\* C5: no node is its own ancestor.
C5_NoCycle == \A id \in DOMAIN treeItems : id \notin Descendants(treeItems, id)

\* C6: a drop whose destination parent is the dragged item or one of its
\* descendants leaves every children list unchanged.
C6_DropIntoOwnSubtreeRejected ==
    [][(last'.op = "handleDragEnd" /\ last'.id # ""
          /\ last'.dst \in ({last'.id} \cup Descendants(treeItems, last'.id)))
        => treeData' = treeData]_vars

\* C7: in a tree without cycles, no node whose type is string, number,
\* boolean or null has children.
C7_ScalarHasNoChildren ==
    (\A id \in DOMAIN treeItems : id \notin Descendants(treeItems, id))
    => \A id \in DOMAIN treeItems :
           treeItems[id].type \in {"string", "number", "boolean", "null"}
               => treeItems[id].children = <<>>

\* C8: every node other than the root is in exactly one children list,
\* exactly once.
C8_SingleOwnership ==
    \A id \in DOMAIN treeItems \ {RootId} : Occurrences(treeItems, id) = 1

\* C9: after a delete neither the deleted node nor any of its descendants
\* remains in the treeItems map.
C9_DeleteCascades ==
    [][last'.op = "removeItem"
        => ({last'.id} \cup Descendants(treeItems, last'.id)) \cap DOMAIN treeData'.items = {}]_vars

\* C10: after delete(n), n is not in the treeItems map and no remaining node's
\* children list contains n (so no remaining node has n as its parent).
C10_NoDanglingReference ==
    last.op = "removeItem"
    => /\ last.id \notin DOMAIN treeItems
       /\ \A m \in DOMAIN treeItems : last.id \notin SeqToSet(treeItems[m].children)

\* C10's case: a node with children was deleted from under its parent.
C10_Witness ==
    /\ last.op = "removeItem"
    /\ last.id \notin DOMAIN treeItems
    /\ \E m \in DOMAIN treeItems : m \notin Reachable(treeItems)

\* The file the editor is open on.
selectedFile == FileById(files, selectedFileId)

EditedNode == NodeById(nodes, last'.id)

\* C12: confirming an edit of a number-typed node with non-numeric text
\* leaves the node's value and type unchanged and reports a validation error.
C12_NonNumericEditRejected ==
    [][(/\ last'.op = "handleSave"
        /\ EditedNode.data.type = "number"
        /\ ~IsNumber(editors[last'.id].editValue))
       => /\ NodeById(nodes', last'.id).data.value = EditedNode.data.value
          /\ NodeById(nodes', last'.id).data.type = EditedNode.data.type
          /\ Len(errors') > Len(errors)]_vars

\* C13: after a confirmed value edit of a leaf node (the text differs from the
\* one the editor opened with) the edited node holds the new value and every other node is
\* unchanged.
C13_SaveReplacesValue ==
    [][(/\ last'.op = "handleSave"
        /\ EditedNode.type = "value"
        /\ editors[last'.id].editValue # InitialEditValue(EditedNode.data.value))
       => /\ Len(nodes') = Len(nodes)
          /\ \A i \in 1..Len(nodes) :
                 nodes'[i] = IF nodes[i].id = last'.id
                             THEN [nodes[i] EXCEPT !.data.value = JStr(editors[last'.id].editValue)]
                             ELSE nodes[i]]_vars

\* A key that parses as a non-negative integer: a non-empty run of digits,
\* with the brackets of an array title removed.
IsIndexKey(title) == StripBrackets(title) # "" /\ AllDigits(StripBrackets(title))

ChildTitles(its, id) == {its[c].title : c \in SeqToSet(its[id].children)}

\* C14: a non-empty sibling list serializes to an array if and only if every
\* sibling key parses as a non-negative integer, and otherwise to an object
\* keyed by the siblings' current keys.
C14_ArrayIffIndexKeys ==
    \A id \in DOMAIN treeItems :
        treeItems[id].children # <<>>
        => IF \A t \in ChildTitles(treeItems, id) : IsIndexKey(t)
           THEN NodeJson(treeItems, id).kind = "array"
           ELSE /\ NodeJson(treeItems, id).kind = "object"
                /\ SeqToSet(NodeJson(treeItems, id).keys) = ChildTitles(treeItems, id)

\* C15: every node's type is derived from its value: one of object, array,
\* string, number, boolean, null; null for a null value and array for an
\* array.
C15_TypeFromValue ==
    \A id \in DOMAIN treeItems \ {RootId} :
        /\ treeItems[id].type \in {"object", "array", "string", "number", "boolean", "null"}
        /\ treeItems[id].value.kind = "null" => treeItems[id].type = "null"
        /\ treeItems[id].value.kind = "array" => treeItems[id].type = "array"

\* The number of nodes a document has below its root: one per array element
\* and per object property, at every depth.
RECURSIVE CountNodes(_)
CountNodes(v) ==
    LET F[i \in 0..Len(v.elems)] ==
            IF i = 0 THEN 0 ELSE F[i - 1] + 1 + CountNodes(v.elems[i])
    IN F[Len(v.elems)]

\* C16: convertToAtlassianTree gives every node of the document an id of its
\* own, whatever the keys are: the tree has one item per node, and no id is
\* listed as a child twice.
C16_UniqueIds ==
    steps = 0
    => /\ Cardinality(DOMAIN treeItems \ {RootId}) = CountNodes(data)
       /\ \A id \in DOMAIN treeItems \ {RootId} : Occurrences(treeItems, id) = 1

\* C17: expand and collapse change only the isExpanded flag of the node they
\* are called on: every node keeps its value, key, type and children, and the
\* JSON serialized from the tree is the same before and after.
C17_ExpandCollapseOnlyFlag ==
    [][last'.op \in {"handleExpand", "handleCollapse"}
       => /\ treeData'.rootId = treeData.rootId
          /\ DOMAIN treeData'.items = DOMAIN treeItems
          /\ \A id \in DOMAIN treeItems :
                 treeData'.items[id] =
                     IF id = last'.id
                     THEN [treeItems[id] EXCEPT !.isExpanded = (last'.op = "handleExpand")]
                     ELSE treeItems[id]
          /\ convertFromAtlassianTree(treeData') = convertFromAtlassianTree(treeData)
          /\ content' = content]_vars

\* C17's case: a node with children was collapsed, or collapsed and expanded
\* again.
C17_Witness ==
    /\ last.op \in {"handleExpand", "handleCollapse"}
    /\ treeItems[last.id].children # <<>>
    /\ treeItems[last.id].isExpanded = (last.op = "handleExpand")
    /\ content = convertFromAtlassianTree(treeData)

\* C18: a bulk rename gives the (trimmed) title to exactly the selected
\* nodes and changes nothing else of the tree; a single rename changes the
\* title of exactly the targeted node.
C18_RenameExactlySelected ==
    [][/\ (last'.op = "renameAll" /\ last'.applied)
          => /\ DOMAIN treeData'.items = DOMAIN treeItems
             /\ \A id \in DOMAIN treeItems :
                    treeData'.items[id] =
                        IF id \in selectedItems
                        THEN [treeItems[id] EXCEPT !.title = Trim(bulkEditValue)]
                        ELSE treeItems[id]
       /\ (last'.op = "updateItemTitle" /\ last'.applied)
          => /\ DOMAIN treeData'.items = DOMAIN treeItems
             /\ treeData'.items[last'.id].title # treeItems[last'.id].title
             /\ \A id \in DOMAIN treeItems :
                    treeData'.items[id] =
                        IF id = last'.id
                        THEN [treeItems[id] EXCEPT !.title = treeData'.items[id].title]
                        ELSE treeItems[id]]_vars

\* C18's case: in {"a": {"b": 1}, "b": 2} the inner b was selected and bulk
\* renamed; the outer b, not selected, keeps its key.
C18_Witness ==
    /\ data = DocSharedKey
    /\ last.op = "renameAll"
    /\ treeItems["object-object-root-a-b"].title = "k"
    /\ treeItems["object-root-b"].title = "b"

\* Whether item id of the tree matches the current filters.
Matches(id) == itemMatchesFilters(treeItems[id], searchQuery, selectedType, exactMatch)

\* The nodes of the filtered tree.
Retained == Rendered(shownTree)

\* C19: the filtered tree contains a non-root node exactly if the node
\* matches the filters or has a matching descendant, and the children of each
\* retained node (and of the root) are its retained children in their
\* original order.
C19_FilterKeepsMatchesAndAncestors ==
    /\ Retained \subseteq Rendered(treeData)
    /\ \A id \in Rendered(treeData) :
           id \in Retained
           <=> (Matches(id) \/ \E d \in Descendants(treeItems, id) : Matches(d))
    /\ \A id \in Retained \cup {RootId} :
           shownTree.items[id].children
               = SelectSeq(treeItems[id].children, LAMBDA c : c \in Retained)

\* C19's case: under an active filter a node that does not match is kept for
\* a matching descendant, and another node is dropped.
C19_Witness ==
    /\ searchQuery # "" \/ selectedType # "all"
    /\ \E id \in Retained : ~Matches(id)
    /\ Rendered(treeData) \ Retained # {}

FilterOps == {"setSearchQuery", "setExactMatch", "setShowFilters", "setSelectedType",
              "clearFilters"}

\* C20 as stated: after "select all filtered" the selected set is the
\* intersection of the selected set before and the set of nodes matching the
\* current filter.
C20_SelectAllIntersects ==
    [][last'.op = "selectAllFiltered"
       => selectedItems' = selectedItems \cap exactFilteredItems]_vars

\* C20 amended: changing the filters leaves the selected set as it is;
\* checking "select all filtered" replaces the selected set by the set of
\* nodes matching the current filter, and unchecking it empties the set.
C20_SelectAllReplaces ==
    [][/\ last'.op \in FilterOps => selectedItems' = selectedItems
       /\ last'.op = "selectAllFiltered"
          => selectedItems' = IF AllFilteredChecked THEN {} ELSE exactFilteredItems]_vars

\* C20's case: under a filter that some nodes do not match, "select all
\* filtered" has selected the matching nodes.
C20_Witness ==
    /\ last.op = "selectAllFiltered"
    /\ selectedItems # {}
    /\ selectedItems = exactFilteredItems
    /\ DOMAIN treeItems \ ({RootId} \cup selectedItems) # {}

\* C21: a rename step (single or bulk) either leaves the tree, the serialized
\* JSON and the files as they were, or gives the renamed nodes a non-empty key
\* without surrounding blanks; an empty or blank key is never stored, and a
\* single rename to the node's own key changes nothing.
C21_BlankKeyRejected ==
    [][/\ last'.op = "updateItemTitle"
          => \/ ~last'.applied /\ treeData' = treeData /\ content' = content /\ files' = files
             \/ /\ last'.applied
                /\ treeData'.items[last'.id].title # ""
                /\ Trim(treeData'.items[last'.id].title) = treeData'.items[last'.id].title
       /\ last'.op = "renameAll"
          => \/ /\ ~last'.applied
                /\ Trim(bulkEditValue) = ""
                /\ treeData' = treeData /\ content' = content /\ files' = files
                /\ selectedItems' = selectedItems
             \/ /\ last'.applied
                /\ Trim(bulkEditValue) # ""
                /\ \A id \in selectedItems \cap DOMAIN treeItems :
                       treeData'.items[id].title = Trim(bulkEditValue)]_vars

\* C21's case: a bulk rename to a blank title was attempted on a selection
\* and nothing changed.
C21_Witness ==
    /\ last.op = "renameAll"
    /\ ~last.applied
    /\ selectedItems # {}
    /\ bulkEditValue # ""
    /\ Trim(bulkEditValue) = ""
    /\ content = convertFromAtlassianTree(convertToAtlassianTree(data))

\* C22: cancelling an edit returns to Idle, leaves the nodes unchanged and
\* discards the pending text: entering Editing again on the same node starts
\* from the stored value.
C22_CancelDiscardsPendingText ==
    [][/\ last'.op = "handleCancel"
          => ~editors'[last'.id].isEditing /\ nodes' = nodes
       /\ (/\ last.op = "handleCancel" /\ last'.op = "handleEdit" /\ last'.id = last.id
           /\ NodeById(nodes, last.id).type = "value")
          => /\ editors'[last'.id].isEditing
             /\ editors'[last'.id].editValue
                    = InitialEditValue(NodeById(nodes', last'.id).data.value)]_vars

----------------------------------------------------------------------------
(* FileDropZone: ingestion, selection, save *)

\* The files of a batch that are recognized as JSON and parse, in input order.
Parsing(fileList) ==
    SelectSeq(fileList, LAMBDA f : IsJSONFile(f) /\ ~IsError(JSONParse(f.text)))

\* The files of a batch that are recognized as JSON and are malformed.
Malformed(fileList) ==
    SelectSeq(fileList, LAMBDA f : IsJSONFile(f) /\ IsError(JSONParse(f.text)))

\* The ingestion that the step completes.
Completed == CHOOSE i \in 1..Len(pending) : ~pending[i].done /\ pending'[i].done

\* C23: when an ingestion completes, processFiles has returned one loaded file
\* (unmodified, originalContent equal to content, a fresh id) for each file of
\* the batch that is recognized as JSON and parses, in input order, and these
\* are the files appended; the malformed files of the batch are reported by
\* name in one error toast and the others still load.
C23_OneFilePerParsingInput ==
    [][last'.op = "completeIngestion"
       => LET fileList == pending[Completed].fileList
              good == Parsing(fileList)
              bad == Malformed(fileList)
              returned == processFiles(fileList, uuidCount).jsonFiles
              shown == SubSeq(toasts', Len(toasts) + 1, Len(toasts'))
          IN /\ Len(returned) = Len(good)
             /\ Len(files') = Len(files) + Len(good)
             /\ \A k \in 1..Len(good) :
                   /\ returned[k].name = good[k].name
                   /\ returned[k].content = JSONParse(good[k].text)
                   /\ returned[k].originalContent = returned[k].content
                   /\ ~returned[k].isModified
                   /\ returned[k].id \notin FileIds(files)
                   /\ \A j \in 1..Len(good) : returned[j].id = returned[k].id => j = k
                   /\ files'[Len(files) + k].id = returned[k].id
                   /\ files'[Len(files) + k].name = good[k].name
                   /\ files'[Len(files) + k].originalContent = JSONParse(good[k].text)
             /\ \A i \in 1..Len(files) : files'[i].id = files[i].id
             /\ bad # <<>>
                => \E k \in 1..Len(shown) :
                      /\ shown[k].kind = "error"
                      /\ shown[k].names = [j \in 1..Len(bad) |-> bad[j].name]
             /\ bad = <<>> => \A k \in 1..Len(shown) : shown[k].kind # "error"]_vars

\* C23's case: a batch with a malformed file between two well-formed ones has
\* completed, both well-formed files are loaded and the malformed one reported.
C23_Witness ==
    /\ last.op = "completeIngestion"
    /\ Len(files) = 2
    /\ files[1].name = "a.json"
    /\ files[2].name = "b.json"
    /\ \E k \in 1..Len(toasts) : toasts[k].kind = "error" /\ toasts[k].names = <<"bad.json">>

\* C24: handleFileSelect of a file other than the open one changes no file's
\* content and no file's isModified flag.
C24_SelectLeavesFilesAlone ==
    [][(last'.op = "handleFileSelect" /\ last'.id # selectedFileId)
       => /\ Len(files') = Len(files)
          /\ \A i \in 1..Len(files) :
                /\ files'[i].content = files[i].content
                /\ files'[i].isModified = files[i].isModified]_vars

\* C25: loading files and opening one in the editor is no mutation: a step
\* that starts or completes an ingestion leaves every unmodified file
\* unmodified, and every file it loads is unmodified with its content equal to
\* originalContent.
C25_ModifiedOnlyByMutation ==
    [][last'.op \in {"startIngestion", "completeIngestion"}
       => \A i \in 1..Len(files') :
             (i > Len(files) \/ ~files[i].isModified)
             => /\ ~files'[i].isModified
                /\ files'[i].content = files'[i].originalContent]_vars

\* C29: isProcessing is true whenever an ingestion is in flight.
C29_ProcessingWhileInFlight == InFlight # {} => isProcessing

TreeMutations == {"updateItemTitle", "removeItem", "handleDragEnd", "addRootNode"}

\* C30: handleSave of a loaded file leaves that file unmodified with
\* originalContent equal to its content, its content as it was, and every
\* other file as it was; handleSave of an id that is not loaded changes no
\* file; a tree mutation that is applied leaves the open file modified.
C30_SaveClearsModified ==
    [][/\ last'.op = "handleSave"
          => /\ Len(files') = Len(files)
             /\ \A i \in 1..Len(files) :
                   IF files[i].id = last'.id
                   THEN /\ ~files'[i].isModified
                        /\ files'[i].originalContent = files'[i].content
                        /\ files'[i].content = files[i].content
                        /\ files'[i].id = files[i].id
                        /\ files'[i].name = files[i].name
                   ELSE files'[i] = files[i]
             /\ UNCHANGED <<treeData, selectedFileId>>
       /\ (last'.op \in TreeMutations /\ last'.applied)
          => /\ FileById(files', selectedFileId).isModified
             /\ \A i \in 1..Len(files) :
                   files'[i].originalContent = files[i].originalContent]_vars

\* C30's case: a.json was edited and then saved: it is unmodified and its
\* originalContent is the edited content, not the loaded one.
C30_Witness ==
    /\ last.op = "handleSave"
    /\ last.applied
    /\ \E i \in 1..Len(files) :
          /\ files[i].id = last.id
          /\ files[i].name = "a.json"
          /\ ~files[i].isModified
          /\ files[i].originalContent = files[i].content
          /\ files[i].originalContent # JSONParse(FileA.text)

----------------------------------------------------------------------------
(* Key collisions, stale selections, drags under a filter *)

\* The children of every container of the tree that serializes as an object
\* have pairwise distinct keys.
DistinctKeys(td) ==
    \A p \in Reachable(td.items) \cap DOMAIN td.items :
        LET ch == td.items[p].children
        IN ~IsArrayList(td.items, ch)
           => \A i, j \in 1..Len(ch) :
                 (/\ Has(td.items, ch[i])
                  /\ Has(td.items, ch[j])
                  /\ td.items[ch[i]].title = td.items[ch[j]].title) => i = j

\* C27: a rename keeps the keys of every serialized object pairwise distinct,
\* so that the object has one entry per child node.
C27_RenameKeepsKeysDistinct ==
    [][(last'.op = "updateItemTitle" /\ DistinctKeys(treeData))
       => DistinctKeys(treeData')]_vars

\* C26: the node that handleDragEnd moves is a node shown under the drag's
\* source parent in the rendered (filtered) tree.
C26_DragMovesShownNode ==
    [][(last'.op = "handleDragEnd" /\ last'.applied)
       => \E i \in 1..Len(shownTree.items[last'.src].children) :
             shownTree.items[last'.src].children[i] = last'.id]_vars

\* C28: the selected set holds only ids of nodes of the current document tree.
C28_SelectionWithinTree == selectedItems \subseteq Rendered(treeData)

====
